---- MODULE Spec2Model ----
(***************************************************************************)
(* Model of the RAG helper service: the result post-processing of          *)
(* backend/chroma_client.py query_similar (format, threshold filter,       *)
(* source normalisation, per-source deduplication, sort, truncation) and   *)
(* the sliding-window chunker of backend/document_processor.py chunk_text. *)
(*                                                                         *)
(* Strings are sequences of one-character strings.  Scores, distances and  *)
(* min_score are fixed-point numbers in tenths: One stands for 1.0.        *)
(* A Python dict is a function whose DOMAIN is the set of its keys.        *)
(***************************************************************************)
EXTENDS Integers, Sequences, FiniteSets, TLC

VARIABLES
    pc,                 \* "query" / "chunk": call pending; "done": call over
    docs,               \* results["documents"][0] of collection.query
    metadatas,          \* results["metadatas"][0] (may be shorter than docs)
    distances,          \* results["distances"][0] (may be shorter than docs)
    top_k,              \* query_similar argument
    min_score,          \* query_similar argument
    formatted_results,  \* query_similar local, as of line 259
    unique_sources,     \* query_similar local
    results_list,       \* query_similar local, after the sort of line 279
    ret,                \* the list query_similar returns
    text,               \* chunk_text argument
    chunk_size,         \* chunk_text argument
    overlap,            \* chunk_text argument
    chunks,             \* the list chunk_text returns
    starts,             \* the loop index i of every window chunk_text appended
    visited,            \* the loop index i of every window chunk_text took
    file,               \* process_file argument: the file at file_path
    result,             \* the list process_file returns
    cached_client,      \* app._client: "None" or "client"
    cached_collection,  \* app._collection: 0 for None, else the generation
                        \* of the backend collection the handle refers to
    coll_gen,           \* backend: generation of the collection that exists
                        \* under COLLECTION_NAME, 0 when there is none
    gens,               \* backend: number of collections created so far
    store,              \* backend: ids of the records of that collection
    served,             \* the last HTTP request served and its response
    texts,              \* embed_texts argument
    batch_start,        \* embed_texts: index of the outer loop
    attempt,            \* embed_texts: index of the retry loop
    backoff,            \* embed_texts local, in seconds
    all_embeddings,     \* embed_texts local
    api_calls,          \* every call of genai.embed_content so far: the
                        \* bounds of its batch and the reply it got
    vectors,            \* the list embed_texts returns
    tpc,                \* per request thread: the line of
                        \* get_client_and_collection it is about to run
    client_id,          \* which successful call of create_client made the
                        \* object in app._client, 0 for None
    create_calls,       \* successful calls of create_client so far
    fetch_calls,        \* successful calls of get_or_create_collection made
                        \* by get_client_and_collection so far
    observed,           \* per request thread: the pair its last call of
                        \* get_client_and_collection returned
    outcome             \* "none", "returned" or the exception raised

vars == <<pc, docs, metadatas, distances, top_k, min_score, formatted_results,
          unique_sources, results_list, ret, text, chunk_size, overlap,
          chunks, starts, visited, file, result, cached_client,
          cached_collection, coll_gen, gens, store, served, texts,
          batch_start, attempt, backoff, all_embeddings, api_calls, vectors,
          tpc, client_id, create_calls, fetch_calls, observed, outcome>>

rankVars == <<docs, metadatas, distances, top_k, min_score, formatted_results,
              unique_sources, results_list, ret>>

chunkVars == <<text, chunk_size, overlap, chunks, starts, visited, file,
               result>>

appVars == <<cached_client, cached_collection, coll_gen, gens, store, served>>

embedVars == <<texts, batch_start, attempt, backoff, all_embeddings,
               api_calls, vectors>>

\* embed_texts not called
EmbedIdle ==
    /\ texts = <<>>
    /\ batch_start = 0
    /\ attempt = 0
    /\ backoff = 0
    /\ all_embeddings = <<>>
    /\ api_calls = <<>>
    /\ vectors = <<>>

threadVars == <<tpc, client_id, create_calls, fetch_calls, observed>>

MaxThreads == 2

Threads == 1 .. MaxThreads

NothingObserved == [client |-> 0, collection |-> 0]

\* no request thread is inside get_client_and_collection
ThreadIdle ==
    /\ tpc = [t \in Threads |-> "idle"]
    /\ client_id = 0
    /\ create_calls = 0
    /\ fetch_calls = 0
    /\ observed = [t \in Threads |-> NothingObserved]

\* no request served yet
NoRequest == [kind |-> "none", status |-> 0, filename |-> <<>>,
              content |-> <<>>, ids |-> {}, count |-> 0,
              results |-> <<>>, before |-> 0, extracted |-> -1,
              embed |-> "not called", upsert |-> "not called"]

\* app.py lines 41-42 and an empty backend
AppIdle ==
    /\ cached_client = "None"
    /\ cached_collection = 0
    /\ coll_gen = 0
    /\ gens = 0
    /\ store = {}
    /\ served = NoRequest

(***************************************************************************)
(* Bounds and input domains                                                *)
(***************************************************************************)
MaxCands == 3

MaxTextLen == 5

MaxChunkSize == 3

One == 10

Distances == {0, 5, 12}

MinScores == {0, 5}

TopKs == -1 .. MaxCands

EmptyDict == [k \in {} |-> <<>>]

SourceDict(s) == [k \in {"source"} |-> s]

\* Python None where a dict is expected (Chroma reports None for a record
\* stored without metadata)
NoneValue == [k \in {"<None>"} |-> <<>>]

\* the metadata upsert_chunks stores: source and chunk_id, both strings
StoredDict(s, c) == [k \in {"source", "chunk_id"} |->
                        IF k = "source" THEN s ELSE c]

Metadatas == {NoneValue, EmptyDict, SourceDict(<<"A">>),
              SourceDict(<<"A", " ">>), StoredDict(<<"B">>, <<"0">>)}

SeqsUpTo(S, n) == UNION {[1 .. m -> S] : m \in 0 .. n}

Min(a, b) == IF a < b THEN a ELSE b

Max(a, b) == IF a > b THEN a ELSE b

(***************************************************************************)
(* Python primitives used by the code                                      *)
(***************************************************************************)
IsSpace(c) == c \in {" ", "\n", "\t"}

\* str.lstrip(): the leading run of whitespace removed
LStrip(s) ==
    LET n == CHOOSE k \in 0 .. Len(s) :
                 /\ \A i \in 1 .. k : IsSpace(s[i])
                 /\ (k = Len(s) \/ ~IsSpace(s[k + 1]))
    IN  SubSeq(s, n + 1, Len(s))

\* str.rstrip(): the trailing run of whitespace removed
RStrip(s) ==
    LET n == CHOOSE k \in 0 .. Len(s) :
                 /\ \A i \in (Len(s) - k + 1) .. Len(s) : IsSpace(s[i])
                 /\ (k = Len(s) \/ ~IsSpace(s[Len(s) - k]))
    IN  SubSeq(s, 1, Len(s) - n)

\* str.strip()
Strip(s) == RStrip(LStrip(s))

\* dict.get(key, default)
Get(d, key, default) == IF key \in DOMAIN d THEN d[key] ELSE default

\* seq[:k + 1]: the slice bound taken one too far
SliceToInclusive(seq, k) ==
    IF k + 1 >= 0 THEN SubSeq(seq, 1, Min(k + 1, Len(seq)))
    ELSE SubSeq(seq, 1, Max(Len(seq) + k + 1, 0))

\* seq[:k]
SliceTo(seq, k) ==
    IF k >= 0 THEN SubSeq(seq, 1, Min(k, Len(seq)))
    ELSE SubSeq(seq, 1, Max(Len(seq) + k, 0))

\* seq[a:b + 1]: the end of the slice taken one too far
SliceInclusive(seq, a, b) == SubSeq(seq, a + 1, Min(b + 1, Len(seq)))

\* seq[a:b] for 0 <= a <= b, 0-based, end exclusive, clipped to the sequence
Slice(seq, a, b) == SubSeq(seq, a + 1, Min(b, Len(seq)))

\* insertion in front of the records of equal score: an unstable sort
RECURSIVE InsertDescBeforeTies(_, _)
InsertDescBeforeTies(sorted, r) ==
    IF sorted = <<>> THEN <<r>>
    ELSE IF Head(sorted).score > r.score
         THEN <<Head(sorted)>> \o InsertDescBeforeTies(Tail(sorted), r)
         ELSE <<r>> \o sorted

\* one insertion of the stable descending sort: r goes behind every record
\* whose score is greater or equal
RECURSIVE InsertDesc(_, _)
InsertDesc(sorted, r) ==
    IF sorted = <<>> THEN <<r>>
    ELSE IF Head(sorted).score >= r.score
         THEN <<Head(sorted)>> \o InsertDesc(Tail(sorted), r)
         ELSE <<r>> \o sorted

RECURSIVE SortDescFrom(_, _)
SortDescFrom(sorted, rest) ==
    IF rest = <<>> THEN sorted
    ELSE SortDescFrom(InsertDesc(sorted, Head(rest)), Tail(rest))

RECURSIVE InsertAsc(_, _)
InsertAsc(sorted, r) ==
    IF sorted = <<>> THEN <<r>>
    ELSE IF Head(sorted).score <= r.score
         THEN <<Head(sorted)>> \o InsertAsc(Tail(sorted), r)
         ELSE <<r>> \o sorted

RECURSIVE SortAscFrom(_, _)
SortAscFrom(sorted, rest) ==
    IF rest = <<>> THEN sorted
    ELSE SortAscFrom(InsertAsc(sorted, Head(rest)), Tail(rest))

\* list.sort(key=score) without reverse=True
SortByScoreAsc(seq) == SortAscFrom(<<>>, seq)

\* list.sort(key=score, reverse=True): stable, descending
SortByScoreDesc(seq) == SortDescFrom(<<>>, seq)

(***************************************************************************)
(* query_similar, from the search result on                                *)
(***************************************************************************)
\* lines 229-247: one record per returned document
FormatResults(ds, ms, dist) ==
    [i \in 1 .. Len(ds) |->
        [text     |-> ds[i],
         metadata |-> IF i <= Len(ms) THEN ms[i] ELSE EmptyDict,
         score    |-> IF i <= Len(dist) THEN One - dist[i] ELSE One]]

\* lines 249-251
FilterByMinScore(fr, ms) ==
    IF ms > 0 THEN SelectSeq(fr, LAMBDA r : r.score >= ms) ELSE fr

\* the metadata replaced by a new dict that holds the source only
NormalizeSourcesOnly(fr) ==
    [i \in 1 .. Len(fr) |->
        [fr[i] EXCEPT !.metadata =
            SourceDict(Strip(Get(fr[i].metadata, "source", <<>>)))]]

\* lines 254-257: md["source"] is set, the other keys of md stay
NormalizeSources(fr) ==
    [i \in 1 .. Len(fr) |->
        LET md == fr[i].metadata
        IN  [fr[i] EXCEPT !.metadata =
                [k \in DOMAIN md \cup {"source"} |->
                    IF k = "source" THEN Strip(Get(md, "source", <<>>))
                    ELSE md[k]]]]

\* line 259
UniqueSources(fr) ==
    {Get(fr[i].metadata, "source", <<>>) :
        i \in {j \in 1 .. Len(fr) : DOMAIN fr[j].metadata # {}}}

\* the dedup step with >= for >: the last of equally scored records wins
DedupStepKeepLast(deduped, r) ==
    LET src == Get(r.metadata, "source", <<>>)
        hit == {j \in 1 .. Len(deduped) : deduped[j].metadata["source"] = src}
    IN  IF src = <<>> THEN deduped
        ELSE IF hit = {} THEN Append(deduped, r)
        ELSE LET j == CHOOSE x \in hit : TRUE
             IN  IF r.score >= deduped[j].score
                 THEN [deduped EXCEPT ![j] = r]
                 ELSE deduped

\* lines 266-271: one step of the loop over formatted_results; deduped is
\* the dict's values in key insertion order
DedupStep(deduped, r) ==
    LET src == Get(r.metadata, "source", <<>>)
        hit == {j \in 1 .. Len(deduped) : deduped[j].metadata["source"] = src}
    IN  IF src = <<>> THEN deduped
        ELSE IF hit = {} THEN Append(deduped, r)
        ELSE LET j == CHOOSE x \in hit : TRUE
             IN  IF r.score > deduped[j].score
                 THEN [deduped EXCEPT ![j] = r]
                 ELSE deduped

RECURSIVE DedupFrom(_, _)
DedupFrom(deduped, rest) ==
    IF rest = <<>> THEN deduped
    ELSE DedupFrom(DedupStep(deduped, Head(rest)), Tail(rest))

\* lines 263-276
SelectResults(fr, us) ==
    IF Cardinality(us) > 1 THEN DedupFrom(<<>>, fr) ELSE fr

\* lines 249-281 applied to a list of candidate records
RankPipeline(cands, k, ms) ==
    LET fr == NormalizeSources(FilterByMinScore(cands, ms))
    IN  SliceTo(SortByScoreDesc(SelectResults(fr, UniqueSources(fr))), k)

(***************************************************************************)
(* Specification of the ranking                                            *)
(***************************************************************************)
InitRank ==
    /\ pc = "query"
    /\ docs \in {[i \in 1 .. n |-> i] : n \in 0 .. MaxCands}
    /\ metadatas \in SeqsUpTo(Metadatas, Len(docs))
    /\ distances \in SeqsUpTo(Distances, Len(docs))
    /\ top_k \in TopKs
    /\ min_score \in MinScores
    /\ formatted_results = <<>>
    /\ unique_sources = {}
    /\ results_list = <<>>
    /\ ret = <<>>
    /\ text = <<>>
    /\ chunk_size = 0
    /\ overlap = 0
    /\ chunks = <<>>
    /\ starts = <<>>
    /\ visited = <<>>
    /\ file = [name |-> <<>>, exists |-> FALSE, readable |-> FALSE,
               content |-> <<>>]
    /\ result = <<>>
    /\ AppIdle
    /\ EmbedIdle
    /\ ThreadIdle
    /\ outcome = "none"

\* lines 229-281.  md.get on a None metadata (line 256) raises AttributeError
\* out of query_similar: nothing is returned.
QuerySimilar ==
    /\ pc = "query"
    /\ LET filtered == FilterByMinScore(
                           FormatResults(docs, metadatas, distances), min_score)
           fr == NormalizeSources(filtered)
           us == UniqueSources(fr)
           rl == SortByScoreDesc(SelectResults(fr, us))
       IN  IF \E i \in 1 .. Len(filtered) : filtered[i].metadata = NoneValue
           THEN /\ outcome' = "AttributeError"
                /\ UNCHANGED <<formatted_results, unique_sources,
                               results_list, ret>>
           ELSE /\ formatted_results' = fr
                /\ unique_sources' = us
                /\ results_list' = rl
                /\ ret' = SliceTo(rl, top_k)
                /\ outcome' = "returned"
    /\ pc' = "done"
    /\ UNCHANGED <<docs, metadatas, distances, top_k, min_score>>
    /\ UNCHANGED chunkVars
    /\ UNCHANGED appVars
    /\ UNCHANGED embedVars
    /\ UNCHANGED threadVars

Next == QuerySimilar

Spec == InitRank /\ [][Next]_vars

(***************************************************************************)
(* chunk_text and process_file                                             *)
(***************************************************************************)
Chars == {"a", "b", " ", "\n"}

\* document_processor.py lines 26-27
CHUNK_SIZE == 500

CHUNK_OVERLAP == 50

\* the negative-overlap test forgotten
InvalidParametersNoNegative(cs, ov) == cs <= 0 \/ ov >= cs

\* lines 110-114: the parameters chunk_text rejects
InvalidParameters(cs, ov) == cs <= 0 \/ ov < 0 \/ ov >= cs

\* chunk_size + overlap: the overlap added instead of subtracted
StepPlus(cs, ov) == cs + ov

\* line 120
Step(cs, ov) == cs - ov

\* "if chunk:" for "if chunk.strip():"
KeepChunkNonEmpty(chunk) == chunk # <<>>

\* line 124
KeepChunk(chunk) == Strip(chunk) # <<>>

\* "i + chunk_size > len(text)": the loop goes on when a window ends exactly
\* at the end of the text
ReachedEndStrict(i, cs, len) == i + cs > len

\* line 128
ReachedEnd(i, cs, len) == i + cs >= len

\* lines 122-129: the loop from index i on; acc holds the indices i of the
\* windows appended so far
RECURSIVE ChunkLoop(_, _, _, _)
ChunkLoop(t, cs, ov, st) ==
    LET i == st.i
        chunk == Slice(t, i, i + cs)
        acc == IF KeepChunk(chunk) THEN Append(st.acc, i) ELSE st.acc
    IN  IF i >= Len(t) THEN st.acc
        ELSE IF ReachedEnd(i, cs, Len(t)) THEN acc
        ELSE ChunkLoop(t, cs, ov, [i |-> i + Step(cs, ov), acc |-> acc])

WindowStarts(t, cs, ov) == ChunkLoop(t, cs, ov, [i |-> 0, acc |-> <<>>])

\* lines 122, 128-129: the indices i the loop takes, kept window or not
RECURSIVE VisitedFrom(_, _, _, _)
VisitedFrom(t, cs, ov, i) ==
    IF i >= Len(t) THEN <<>>
    ELSE IF ReachedEnd(i, cs, Len(t)) THEN <<i>>
    ELSE <<i>> \o VisitedFrom(t, cs, ov, i + Step(cs, ov))

\* lines 110-131: what a call of chunk_text gives
ChunkTextCall(t, cs, ov) ==
    IF InvalidParameters(cs, ov)
    THEN [outcome |-> "ValueError", chunks |-> <<>>, starts |-> <<>>,
          visited |-> <<>>]
    ELSE IF t = <<>>
    THEN [outcome |-> "returned", chunks |-> <<>>, starts |-> <<>>,
          visited |-> <<>>]
    ELSE LET ws == WindowStarts(t, cs, ov)
         IN  [outcome |-> "returned",
              chunks  |-> [j \in 1 .. Len(ws) |-> Slice(t, ws[j], ws[j] + cs)],
              starts  |-> ws,
              visited |-> VisitedFrom(t, cs, ov, 0)]

(***************************************************************************)
(* Documents long enough for the default window: blocks of one character,  *)
(* each block one default step long, the last one possibly shorter.        *)
(***************************************************************************)
MaxBlocks == 4

TailLen == 300

BlockLen == Step(CHUNK_SIZE, CHUNK_OVERLAP)

BlockChars == {"a", " "}

LongText(bs, last) ==
    [p \in 1 .. (Len(bs) - 1) * BlockLen + last |->
        bs[((p - 1) \div BlockLen) + 1]]

LongTexts ==
    {LongText(bs, last) :
        bs \in SeqsUpTo(BlockChars, MaxBlocks) \ {<<>>},
        last \in {BlockLen, TailLen}}

\* a file on disk: its name (stem, suffix), whether it exists, whether its
\* reader succeeds, and the text the reader extracts
Suffixes == {".txt", ".TXT", ".pdf", ".xyz"}

NoFile == [name |-> <<>>, exists |-> FALSE, readable |-> FALSE,
           content |-> <<>>]

Files ==
    [name : {<<"doc", sfx>> : sfx \in Suffixes},
     exists : BOOLEAN,
     readable : BOOLEAN,
     content : LongTexts \cup SeqsUpTo(Chars, 2)]

\* str.lower() on a file suffix
Lower(sfx) == IF sfx = ".TXT" THEN ".txt" ELSE sfx

\* lines 47-93
ExtractText(f) ==
    IF ~f.exists THEN [outcome |-> "ValueError", text |-> <<>>]
    ELSE IF Lower(f.name[Len(f.name)]) \in {".txt", ".md", ".pdf", ".docx"}
    THEN IF f.readable THEN [outcome |-> "returned", text |-> f.content]
         ELSE [outcome |-> "ValueError", text |-> <<>>]
    ELSE [outcome |-> "ValueError", text |-> <<>>]

\* enumerate(chunks, 1)
ProcessResultOneBased(cks, source_name) ==
    [j \in 1 .. Len(cks) |->
        [text |-> cks[j],
         metadata |-> [source |-> source_name, chunk_id |-> j]]]

\* lines 156-165
ProcessResult(cks, source_name) ==
    [j \in 1 .. Len(cks) |->
        [text |-> cks[j],
         metadata |-> [source |-> source_name, chunk_id |-> j - 1]]]

ChunkIdle ==
    /\ text = <<>>
    /\ chunk_size = 0
    /\ overlap = 0
    /\ chunks = <<>>
    /\ starts = <<>>
    /\ visited = <<>>
    /\ file = NoFile
    /\ result = <<>>

RankIdle ==
    /\ docs = <<>>
    /\ metadatas = <<>>
    /\ distances = <<>>
    /\ top_k = 0
    /\ min_score = 0
    /\ formatted_results = <<>>
    /\ unique_sources = {}
    /\ results_list = <<>>
    /\ ret = <<>>

InitChunk ==
    /\ \/ /\ pc = "chunk"
          /\ text \in SeqsUpTo(Chars, MaxTextLen)
          /\ chunk_size \in 0 .. MaxChunkSize
          /\ overlap \in -1 .. MaxChunkSize
          /\ file = NoFile
       \/ /\ pc = "chunk"
          /\ text \in LongTexts
          /\ chunk_size = CHUNK_SIZE
          /\ overlap = CHUNK_OVERLAP
          /\ file = NoFile
       \/ /\ pc = "process"
          /\ file \in Files
          /\ text = <<>>
          /\ chunk_size = 0
          /\ overlap = 0
    /\ chunks = <<>>
    /\ starts = <<>>
    /\ visited = <<>>
    /\ result = <<>>
    /\ RankIdle
    /\ AppIdle
    /\ EmbedIdle
    /\ ThreadIdle
    /\ outcome = "none"

\* lines 110-131
ChunkText ==
    /\ pc = "chunk"
    /\ LET call == ChunkTextCall(text, chunk_size, overlap)
       IN  /\ outcome' = call.outcome
           /\ chunks' = call.chunks
           /\ starts' = call.starts
           /\ visited' = call.visited
    /\ pc' = "done"
    /\ UNCHANGED <<text, chunk_size, overlap, file, result>>
    /\ UNCHANGED rankVars
    /\ UNCHANGED embedVars
    /\ UNCHANGED threadVars
    /\ UNCHANGED appVars

\* lines 147-167: extract_text, chunk_text with the default window, and the
\* numbering of the chunks
ProcessFile ==
    /\ pc = "process"
    /\ LET ext == ExtractText(file)
           call == ChunkTextCall(ext.text, CHUNK_SIZE, CHUNK_OVERLAP)
       IN  IF ext.outcome # "returned"
           THEN /\ outcome' = ext.outcome
                /\ UNCHANGED <<text, chunk_size, overlap, chunks, starts,
                               visited, result>>
           ELSE /\ text' = ext.text
                /\ chunk_size' = CHUNK_SIZE
                /\ overlap' = CHUNK_OVERLAP
                /\ outcome' = call.outcome
                /\ chunks' = call.chunks
                /\ starts' = call.starts
                /\ visited' = call.visited
                /\ result' = ProcessResult(call.chunks, file.name)
    /\ pc' = "processed"
    /\ UNCHANGED file
    /\ UNCHANGED rankVars
    /\ UNCHANGED embedVars
    /\ UNCHANGED threadVars
    /\ UNCHANGED appVars

NextChunk == ChunkText \/ ProcessFile

SpecChunk == InitChunk /\ [][NextChunk]_vars

(***************************************************************************)
(* The Flask application: the module-level cache, the backend collection   *)
(* and the handlers of /healthz, /api/stats, /api/upload and /api/reset.   *)
(* A handler is one step.  Every call that leaves the process (client      *)
(* creation, collection lookup, count, delete, embedding, upsert) succeeds *)
(* or fails as the environment decides; a call through the handle of a     *)
(* deleted collection fails.                                               *)
(***************************************************************************)
MaxGens == 2

TempNames == {"tmp1", "tmp2"}

\* the file of an upload request: no file part, or a filename and a body
UploadContents == {<<" ">>, <<"a">>, LongText(<<"a", "a">>, BlockLen)}

UploadRequests ==
    [has_file : {FALSE}, filename : {<<>>}, content : {<<>>},
     readable : {TRUE}]
    \cup
    [has_file : {TRUE}, filename : {<<>>, <<"doc", ".txt">>, <<"doc", ".xyz">>},
     content : UploadContents, readable : BOOLEAN]

Backend == [gen |-> coll_gen, gens |-> gens, store |-> store]

Cache == [client |-> cached_client, collection |-> cached_collection]

\* chroma_client.py lines 103-111: the existing collection, or a new empty one
GetOrCreateCollection(b, ok) ==
    IF ~ok THEN [exc |-> "RuntimeError", handle |-> 0, b |-> b]
    ELSE IF b.gen # 0 THEN [exc |-> "none", handle |-> b.gen, b |-> b]
    ELSE [exc |-> "none", handle |-> b.gens + 1,
          b |-> [gen |-> b.gens + 1, gens |-> b.gens + 1, store |-> {}]]

\* app.py lines 45-55; create_client (chroma_client.py lines 78-88) raises
\* ValueError
GetClientAndCollection(c, b, createOK, getOK) ==
    IF c.client = "None" /\ ~createOK
    THEN [exc |-> "ValueError", c |-> c, b |-> b]
    ELSE IF c.collection = 0
    THEN LET g == GetOrCreateCollection(b, getOK)
         IN  [exc |-> g.exc,
              c |-> [client |-> "client", collection |-> g.handle],
              b |-> g.b]
    ELSE [exc |-> "none", c |-> [c EXCEPT !.client = "client"], b |-> b]

\* collection.count()
CountCall(handle, b, ok) ==
    IF ok /\ handle # 0 /\ handle = b.gen
    THEN [exc |-> "none", n |-> Cardinality(b.store)]
    ELSE [exc |-> "Exception", n |-> 0]

\* client.delete_collection(name): raises when the call fails or no
\* collection of that name exists
DeleteCollection(b, ok) ==
    IF ok /\ b.gen # 0
    THEN [exc |-> "none", b |-> [b EXCEPT !.gen = 0, !.store = {}]]
    ELSE [exc |-> "Exception", b |-> b]

\* chroma_client.py line 124: the id is a digest of "source:chunk_id",
\* modelled by the pair it is computed from
GenerateChunkId(source, chunk_id) == <<source, chunk_id>>

\* upsert_chunks writing the first chunk before the embedding is known to
\* have succeeded
UpsertChunksFirstEarly(handle, b, cks, embedOK, upsertOK) ==
    LET ids == {GenerateChunkId(cks[j].metadata.source,
                                cks[j].metadata.chunk_id) :
                    j \in 1 .. Len(cks)}
        first == {GenerateChunkId(cks[1].metadata.source,
                                  cks[1].metadata.chunk_id)}
    IN  IF cks = <<>>
        THEN [exc |-> "none", n |-> 0, ids |-> {}, b |-> b,
              embed |-> "not called", upsert |-> "not called"]
        ELSE IF ~(upsertOK /\ handle # 0 /\ handle = b.gen)
        THEN [exc |-> "RuntimeError", n |-> 0, ids |-> {}, b |-> b,
              embed |-> "returned", upsert |-> "raised"]
        ELSE IF ~embedOK
        THEN [exc |-> "RuntimeError", n |-> 0, ids |-> {},
              b |-> [b EXCEPT !.store = @ \cup first],
              embed |-> "raised", upsert |-> "returned"]
        ELSE [exc |-> "none", n |-> Len(cks), ids |-> ids,
              b |-> [b EXCEPT !.store = @ \cup ids],
              embed |-> "returned", upsert |-> "returned"]

\* chroma_client.py lines 146-186
UpsertChunks(handle, b, cks, embedOK, upsertOK) ==
    LET ids == {GenerateChunkId(cks[j].metadata.source,
                                cks[j].metadata.chunk_id) :
                    j \in 1 .. Len(cks)}
    IN  IF cks = <<>>
        THEN [exc |-> "none", n |-> 0, ids |-> {}, b |-> b,
              embed |-> "not called", upsert |-> "not called"]
        ELSE IF ~embedOK
        THEN [exc |-> "RuntimeError", n |-> 0, ids |-> {}, b |-> b,
              embed |-> "raised", upsert |-> "not called"]
        ELSE IF ~(upsertOK /\ handle # 0 /\ handle = b.gen)
        THEN [exc |-> "RuntimeError", n |-> 0, ids |-> {}, b |-> b,
              embed |-> "returned", upsert |-> "raised"]
        ELSE [exc |-> "none", n |-> Len(cks), ids |-> ids,
              b |-> [b EXCEPT !.store = @ \cup ids],
              embed |-> "returned", upsert |-> "returned"]

\* document_processor.py lines 147-167 as a call
ProcessFileCall(f) ==
    LET ext == ExtractText(f)
        call == ChunkTextCall(ext.text, CHUNK_SIZE, CHUNK_OVERLAP)
    IN  IF ext.outcome # "returned"
        THEN [exc |-> ext.outcome, result |-> <<>>]
        ELSE [exc |-> "none", result |-> ProcessResult(call.chunks, f.name)]

Response(kind, status, req, ids, count) ==
    [kind |-> kind, status |-> status, filename |-> req.filename,
     content |-> req.content, ids |-> ids, count |-> count,
     results |-> <<>>, before |-> 0, extracted |-> -1,
     embed |-> "not called", upsert |-> "not called"]

NoUpload == [filename |-> <<>>, content |-> <<>>]

\* the response of an upload and what the handler did for it: the number of
\* chunks process_file returned and the outcome of the embedding and of
\* collection.upsert
UploadResponse(status, req, ids, count, extracted, embed, upsert) ==
    [Response("upload", status, req, ids, count)
        EXCEPT !.extracted = extracted, !.embed = embed, !.upsert = upsert]

\* the early return disabled
NoChunksNever(cks) == FALSE

\* app.py line 135: if not chunks
NoChunks(cks) == cks = <<>>

SetCacheAndBackend(c, b) ==
    /\ cached_client' = c.client
    /\ cached_collection' = c.collection
    /\ coll_gen' = b.gen
    /\ gens' = b.gens
    /\ store' = b.store

InitApp ==
    /\ pc = "serving"
    /\ AppIdle
    /\ EmbedIdle
    /\ ThreadIdle
    /\ ChunkIdle
    /\ RankIdle
    /\ outcome = "none"

\* app.py lines 58-88: always 200
Healthz ==
    /\ pc = "serving"
    /\ \E createOK, getOK \in BOOLEAN :
           LET g == GetClientAndCollection(Cache, Backend, createOK, getOK)
           IN  /\ g.b.gens <= MaxGens
               /\ SetCacheAndBackend(g.c, g.b)
               /\ served' = Response("healthz", 200, NoUpload, {}, 0)
    /\ UNCHANGED <<pc, outcome>>
    /\ UNCHANGED chunkVars
    /\ UNCHANGED rankVars
    /\ UNCHANGED embedVars
    /\ UNCHANGED threadVars

\* app.py lines 91-103
Stats ==
    /\ pc = "serving"
    /\ \E createOK, getOK, countOK \in BOOLEAN :
           LET g == GetClientAndCollection(Cache, Backend, createOK, getOK)
               n == CountCall(g.c.collection, g.b, countOK)
           IN  /\ g.b.gens <= MaxGens
               /\ SetCacheAndBackend(g.c, g.b)
               /\ served' = IF g.exc = "none" /\ n.exc = "none"
                          THEN Response("stats", 200, NoUpload, {}, n.n)
                          ELSE Response("stats", 500, NoUpload, {}, 0)
    /\ UNCHANGED <<pc, outcome>>
    /\ UNCHANGED chunkVars
    /\ UNCHANGED rankVars
    /\ UNCHANGED embedVars
    /\ UNCHANGED threadVars

\* app.py lines 106-165.  The body is saved under a fresh temporary name
\* that keeps the suffix of the uploaded filename, and process_file reads
\* that temporary file.
Upload ==
    /\ pc = "serving"
    /\ \E req \in UploadRequests, tmp \in TempNames,
          createOK, getOK, embedOK, upsertOK \in BOOLEAN :
           LET temp == [name |-> <<tmp, req.filename[Len(req.filename)]>>,
                        exists |-> TRUE, readable |-> req.readable,
                        content |-> req.content]
               pf == ProcessFileCall(temp)
               g == GetClientAndCollection(Cache, Backend, createOK, getOK)
               u == UpsertChunks(g.c.collection, g.b, pf.result,
                                 embedOK, upsertOK)
           IN  IF ~req.has_file \/ req.filename = <<>>
               THEN /\ served' = Response("upload", 400, req, {}, 0)
                    /\ UNCHANGED <<cached_client, cached_collection,
                                   coll_gen, gens, store>>
               ELSE IF pf.exc # "none"
               THEN /\ served' = Response("upload", 400, req, {}, 0)
                    /\ UNCHANGED <<cached_client, cached_collection,
                                   coll_gen, gens, store>>
               ELSE IF NoChunks(pf.result)
               THEN /\ served' = UploadResponse(400, req, {}, 0, 0,
                                                "not called", "not called")
                    /\ UNCHANGED <<cached_client, cached_collection,
                                   coll_gen, gens, store>>
               ELSE IF g.exc # "none"
               THEN /\ g.b.gens <= MaxGens
                    /\ SetCacheAndBackend(g.c, g.b)
                    /\ served' = UploadResponse(
                                     IF g.exc = "ValueError" THEN 400
                                     ELSE 500, req, {}, 0, Len(pf.result),
                                     "not called", "not called")
               ELSE /\ g.b.gens <= MaxGens
                    /\ SetCacheAndBackend(g.c, u.b)
                    /\ served' = UploadResponse(
                                     IF u.exc = "none" THEN 200 ELSE 500,
                                     req, u.ids, u.n, Len(pf.result),
                                     u.embed, u.upsert)
    /\ UNCHANGED <<pc, outcome>>
    /\ UNCHANGED chunkVars
    /\ UNCHANGED rankVars
    /\ UNCHANGED embedVars
    /\ UNCHANGED threadVars

\* app.py lines 222-256.  A failure of delete_collection is swallowed
\* (lines 235-239); the collection is then fetched or created again and
\* counted.
Reset ==
    /\ pc = "serving"
    /\ \E createOK, getOK, deleteOK, recreateOK, countOK \in BOOLEAN :
           LET g == GetClientAndCollection(Cache, Backend, createOK, getOK)
               d == DeleteCollection(g.b, deleteOK)
               r == GetOrCreateCollection(d.b, recreateOK)
               n == CountCall(r.handle, r.b, countOK)
           IN  IF g.exc # "none"
               THEN /\ g.b.gens <= MaxGens
                    /\ SetCacheAndBackend(g.c, g.b)
                    /\ served' = Response("reset", 500, NoUpload, {}, 0)
               ELSE IF r.exc # "none"
               THEN /\ d.b.gens <= MaxGens
                    /\ SetCacheAndBackend(g.c, d.b)
                    /\ served' = Response("reset", 500, NoUpload, {}, 0)
               ELSE /\ r.b.gens <= MaxGens
                    /\ SetCacheAndBackend(
                           [client |-> g.c.client, collection |-> r.handle],
                           r.b)
                    /\ served' = IF n.exc = "none"
                               THEN Response("reset", 200, NoUpload, {}, n.n)
                               ELSE Response("reset", 500, NoUpload, {}, 0)
    /\ UNCHANGED <<pc, outcome>>
    /\ UNCHANGED chunkVars
    /\ UNCHANGED rankVars
    /\ UNCHANGED embedVars
    /\ UNCHANGED threadVars

(***************************************************************************)
(* POST /api/query                                                         *)
(***************************************************************************)
MaxQueryCands == 2

Questions == {<<>>, <<" ">>, <<"q">>}

\* chroma_client.py lines 209-281 as a call on the handle of a collection:
\* the embedding of the question and the search succeed or fail as the
\* environment decides, the search returns the candidates ds, mds, dist
QuerySimilarCall(handle, b, q, ds, mds, dist, k, ms, embedOK, queryOK) ==
    LET filtered == FilterByMinScore(FormatResults(ds, mds, dist), ms)
    IN  IF Strip(q) = <<>> THEN [exc |-> "ValueError", ret |-> <<>>]
        ELSE IF ~embedOK THEN [exc |-> "RuntimeError", ret |-> <<>>]
        ELSE IF ~(queryOK /\ handle # 0 /\ handle = b.gen)
        THEN [exc |-> "RuntimeError", ret |-> <<>>]
        ELSE IF \E i \in 1 .. Len(filtered) : filtered[i].metadata = NoneValue
        THEN [exc |-> "AttributeError", ret |-> <<>>]
        ELSE [exc |-> "none",
              ret |-> RankPipeline(FormatResults(ds, mds, dist), k, ms)]

\* the server-side filter with the guard of query_similar
EnforceMinScoreGuarded(results, ms) == FilterByMinScore(results, ms)

\* app.py lines 192-195
EnforceMinScore(results, ms) ==
    SelectSeq(results, LAMBDA r : Get(r, "score", 0) >= ms)

\* app.py lines 197-198
Finalize(results, k, ms) ==
    SliceTo(SortByScoreDesc(EnforceMinScore(results, ms)), k)

QueryResponse(status, final, before) ==
    [Response("query", status, NoUpload, {}, Len(final))
        EXCEPT !.results = final, !.before = before]

\* app.py lines 177-219 for the question q, the parameters k and ms and the
\* candidates the search would return
QueryHandler(q, ds, mds, dist, k, ms, createOK, getOK, embedOK, queryOK) ==
    LET g == GetClientAndCollection(Cache, Backend, createOK, getOK)
        r == QuerySimilarCall(g.c.collection, g.b, q, ds, mds, dist, k, ms,
                              embedOK, queryOK)
    IN  IF Strip(q) = <<>>
        THEN /\ served' = QueryResponse(400, <<>>, 0)
             /\ UNCHANGED <<cached_client, cached_collection, coll_gen,
                            gens, store>>
        ELSE /\ g.b.gens <= MaxGens
             /\ SetCacheAndBackend(g.c, g.b)
             /\ served' = IF g.exc = "none" /\ r.exc = "none"
                          THEN QueryResponse(200, Finalize(r.ret, k, ms),
                                             Len(r.ret))
                          ELSE QueryResponse(500, <<>>, 0)

\* a query request on a service whose collection holds the chunks the search
\* returns; the cache is cold, holds the client only, or is warm
InitQuery ==
    /\ pc = "api_query"
    /\ docs \in {[i \in 1 .. n |-> i] : n \in 0 .. MaxQueryCands}
    /\ metadatas \in [1 .. Len(docs) -> Metadatas]
    /\ distances \in [1 .. Len(docs) -> Distances]
    /\ top_k \in -1 .. MaxQueryCands
    /\ min_score \in MinScores
    /\ formatted_results = <<>>
    /\ unique_sources = {}
    /\ results_list = <<>>
    /\ ret = <<>>
    /\ ChunkIdle
    /\ EmbedIdle
    /\ ThreadIdle
    /\ cached_client \in {"None", "client"}
    /\ cached_collection \in {0, 1}
    /\ cached_client = "None" => cached_collection = 0
    /\ coll_gen = 1
    /\ gens = 1
    /\ store = {GenerateChunkId(<<"doc">>, i - 1) : i \in 1 .. Len(docs)}
    /\ served = NoRequest
    /\ outcome = "none"

Query ==
    /\ pc = "api_query"
    /\ \E q \in Questions, createOK, getOK, embedOK, queryOK \in BOOLEAN :
           QueryHandler(q, docs, metadatas, distances, top_k, min_score,
                        createOK, getOK, embedOK, queryOK)
    /\ pc' = "answered"
    /\ UNCHANGED outcome
    /\ UNCHANGED chunkVars
    /\ UNCHANGED rankVars
    /\ UNCHANGED embedVars
    /\ UNCHANGED threadVars

\* POST /api/query among the other requests of a running service: the
\* search returns nothing or one stored chunk
AppQuery ==
    /\ pc = "serving"
    /\ \E q \in Questions, n \in 0 .. 1,
          createOK, getOK, embedOK, queryOK \in BOOLEAN :
           /\ n <= Cardinality(store)
           /\ QueryHandler(q, [i \in 1 .. n |-> i],
                           [i \in 1 .. n |-> StoredDict(<<"tmp1", ".txt">>,
                                                        <<"0">>)],
                           [i \in 1 .. n |-> 5], 1, 0,
                           createOK, getOK, embedOK, queryOK)
    /\ UNCHANGED <<pc, outcome>>
    /\ UNCHANGED chunkVars
    /\ UNCHANGED rankVars
    /\ UNCHANGED embedVars
    /\ UNCHANGED threadVars

NextApp == Healthz \/ Stats \/ Upload \/ AppQuery \/ Reset

SpecApp == InitApp /\ [][NextApp]_vars

NextQuery == Query

SpecQuery == InitQuery /\ [][NextQuery]_vars

(***************************************************************************)
(* embed_texts: one step per call of the embedding API.  A call is         *)
(* answered with the embeddings of its batch ("ok"), is refused with       *)
(* BlockedPromptException ("blocked"), or fails with an exception whose    *)
(* message the code classifies as rate limiting ("rate_limited") or not    *)
(* ("other"); a response that fails the validation of lines 107-115 is     *)
(* such an exception too.                                                  *)
(***************************************************************************)
BATCH_SIZE == 100

MAX_RETRIES == 3

INITIAL_BACKOFF_SECONDS == 1

MaxTexts == 205

Replies == {"ok", "blocked", "rate_limited", "other"}

\* the vector the API computes for a text
Embedding(t) == <<"vector", t>>

\* a batch one text short
BatchEndShort(start, len) == Min(start + BATCH_SIZE - 1, len)

\* line 83
BatchEnd(start, len) == Min(start + BATCH_SIZE, len)

\* line 84: texts[batch_start:batch_end]
Batch(ts, start) == Slice(ts, start, BatchEnd(start, Len(ts)))

\* a retry after any failure
RetryAllowedAnyFailure(reply, att) == att < MAX_RETRIES - 1

\* a retry after every rate-limited failure
RetryAllowedAnyAttempt(reply, att) == reply = "rate_limited"

\* line 136
RetryAllowed(reply, att) == reply = "rate_limited" /\ att < MAX_RETRIES - 1

InitEmbed ==
    /\ pc = "embed"
    /\ texts \in {[i \in 1 .. n |-> i] : n \in 0 .. MaxTexts}
    /\ batch_start = 0
    /\ attempt = 0
    /\ backoff = 0
    /\ all_embeddings = <<>>
    /\ api_calls = <<>>
    /\ vectors = <<>>
    /\ RankIdle
    /\ ChunkIdle
    /\ AppIdle
    /\ ThreadIdle
    /\ outcome = "none"

Raise(exc) ==
    /\ pc' = "embedded"
    /\ outcome' = exc
    /\ vectors' = <<>>

\* the outer loop moves to the batch after batch_start, or ends: line 155
NextBatch(embs) ==
    IF batch_start + BATCH_SIZE < Len(texts)
    THEN /\ batch_start' = batch_start + BATCH_SIZE
         /\ attempt' = 0
         /\ backoff' = INITIAL_BACKOFF_SECONDS
         /\ UNCHANGED <<pc, outcome, vectors>>
    ELSE /\ pc' = "embedded"
         /\ outcome' = "returned"
         /\ vectors' = embs
         /\ UNCHANGED <<batch_start, attempt, backoff>>

\* lines 73-88: the checks of the argument and of the API key, the entry
\* into the first batch
EmbedTexts ==
    /\ pc = "embed"
    /\ \E keyOK \in BOOLEAN :
           IF texts = <<>> \/ ~keyOK
           THEN /\ Raise("ValueError")
                /\ UNCHANGED <<batch_start, attempt, backoff>>
           ELSE /\ pc' = "batch"
                /\ batch_start' = 0
                /\ attempt' = 0
                /\ backoff' = INITIAL_BACKOFF_SECONDS
                /\ UNCHANGED <<outcome, vectors>>
    /\ UNCHANGED <<texts, all_embeddings, api_calls>>
    /\ UNCHANGED rankVars
    /\ UNCHANGED chunkVars
    /\ UNCHANGED appVars
    /\ UNCHANGED threadVars

\* lines 90-153: one pass of the retry loop
EmbedContent ==
    /\ pc = "batch"
    /\ \E reply \in Replies :
           LET batch == Batch(texts, batch_start)
               embs == all_embeddings \o
                           [j \in 1 .. Len(batch) |-> Embedding(batch[j])]
           IN  /\ api_calls' = Append(api_calls,
                       [start |-> batch_start,
                        end |-> BatchEnd(batch_start, Len(texts)),
                        reply |-> reply])
               /\ IF reply = "ok"
                  THEN /\ all_embeddings' = embs
                       /\ NextBatch(embs)
                  ELSE IF reply = "blocked"
                  THEN /\ Raise("RuntimeError")
                       /\ UNCHANGED <<batch_start, attempt, backoff,
                                      all_embeddings>>
                  ELSE IF RetryAllowed(reply, attempt)
                  THEN IF attempt + 1 < MAX_RETRIES
                       THEN /\ attempt' = attempt + 1
                            \* lines 138-144: the sleep, then
                            /\ backoff' = backoff * 2
                            /\ UNCHANGED <<pc, outcome, vectors,
                                           batch_start, all_embeddings>>
                       ELSE /\ UNCHANGED all_embeddings
                            /\ NextBatch(all_embeddings)
                  ELSE /\ Raise("RuntimeError")
                       /\ UNCHANGED <<batch_start, attempt, backoff,
                                      all_embeddings>>
    /\ UNCHANGED texts
    /\ UNCHANGED rankVars
    /\ UNCHANGED chunkVars
    /\ UNCHANGED appVars
    /\ UNCHANGED threadVars

NextEmbed == EmbedTexts \/ EmbedContent

SpecEmbed == InitEmbed /\ [][NextEmbed]_vars

\* the interpreter keeps running a call of embed_texts: time.sleep returns
SpecEmbedFair == SpecEmbed /\ WF_vars(NextEmbed)

(***************************************************************************)
(* get_client_and_collection run by concurrent request threads, one step   *)
(* per line.  The function takes no lock; a thread is preempted between    *)
(* lines, and inside create_client and get_or_create_collection, which     *)
(* wait for the network.                                                   *)
(***************************************************************************)
InitCache ==
    /\ pc = "threads"
    /\ ThreadIdle
    /\ AppIdle
    /\ RankIdle
    /\ ChunkIdle
    /\ EmbedIdle
    /\ outcome = "none"

CacheFrame ==
    /\ UNCHANGED <<pc, outcome, served>>
    /\ UNCHANGED rankVars
    /\ UNCHANGED chunkVars
    /\ UNCHANGED embedVars

\* a handler calls get_client_and_collection
EnterCache(t) ==
    /\ pc = "threads"
    /\ tpc[t] = "idle"
    /\ tpc' = [tpc EXCEPT ![t] = "line49"]
    /\ UNCHANGED <<client_id, create_calls, fetch_calls, observed>>
    /\ UNCHANGED <<cached_client, cached_collection, coll_gen, gens, store>>
    /\ CacheFrame

\* line 49: if _client is None
CheckClient(t) ==
    /\ pc = "threads"
    /\ tpc[t] = "line49"
    /\ tpc' = [tpc EXCEPT ![t] = IF cached_client = "None" THEN "line50"
                                 ELSE "line52"]
    /\ UNCHANGED <<client_id, create_calls, fetch_calls, observed>>
    /\ UNCHANGED <<cached_client, cached_collection, coll_gen, gens, store>>
    /\ CacheFrame

\* line 50: _client = chroma_client.create_client()
CreateClient(t) ==
    /\ pc = "threads"
    /\ tpc[t] = "line50"
    /\ \E createOK \in BOOLEAN :
           IF createOK
           THEN /\ create_calls' = create_calls + 1
                /\ client_id' = create_calls + 1
                /\ cached_client' = "client"
                /\ tpc' = [tpc EXCEPT ![t] = "line52"]
           ELSE /\ tpc' = [tpc EXCEPT ![t] = "idle"]
                /\ UNCHANGED <<create_calls, client_id, cached_client>>
    /\ UNCHANGED <<fetch_calls, observed>>
    /\ UNCHANGED <<cached_collection, coll_gen, gens, store>>
    /\ CacheFrame

\* line 52: if _collection is None
CheckCollection(t) ==
    /\ pc = "threads"
    /\ tpc[t] = "line52"
    /\ tpc' = [tpc EXCEPT ![t] = IF cached_collection = 0 THEN "line53"
                                 ELSE "line55"]
    /\ UNCHANGED <<client_id, create_calls, fetch_calls, observed>>
    /\ UNCHANGED <<cached_client, cached_collection, coll_gen, gens, store>>
    /\ CacheFrame

\* line 53: _collection = chroma_client.get_or_create_collection(_client)
GetCollection(t) ==
    /\ pc = "threads"
    /\ tpc[t] = "line53"
    /\ \E getOK \in BOOLEAN :
           LET g == GetOrCreateCollection(Backend, getOK)
           IN  IF g.exc = "none"
               THEN /\ fetch_calls' = fetch_calls + 1
                    /\ cached_collection' = g.handle
                    /\ coll_gen' = g.b.gen
                    /\ gens' = g.b.gens
                    /\ store' = g.b.store
                    /\ tpc' = [tpc EXCEPT ![t] = "line55"]
               ELSE /\ tpc' = [tpc EXCEPT ![t] = "idle"]
                    /\ UNCHANGED <<fetch_calls, cached_collection, coll_gen,
                                   gens, store>>
    /\ UNCHANGED <<client_id, create_calls, observed, cached_client>>
    /\ CacheFrame

\* line 55: return _client, _collection
ReturnCached(t) ==
    /\ pc = "threads"
    /\ tpc[t] = "line55"
    /\ observed' = [observed EXCEPT ![t] = [client |-> client_id,
                                            collection |-> cached_collection]]
    /\ tpc' = [tpc EXCEPT ![t] = "idle"]
    /\ UNCHANGED <<client_id, create_calls, fetch_calls>>
    /\ UNCHANGED <<cached_client, cached_collection, coll_gen, gens, store>>
    /\ CacheFrame

NextCache ==
    \E t \in Threads :
        \/ EnterCache(t)
        \/ CheckClient(t)
        \/ CreateClient(t)
        \/ CheckCollection(t)
        \/ GetCollection(t)
        \/ ReturnCached(t)

SpecCache == InitCache /\ [][NextCache]_vars

(***************************************************************************)
(* Properties of query_similar                                             *)
(***************************************************************************)
RankDone == pc = "done" /\ outcome = "returned"

SourceOf(r) == r.metadata["source"]

\* the distinct non-empty sources carried by a list of normalised records
NonEmptySources(fr) == {SourceOf(fr[i]) : i \in 1 .. Len(fr)} \ {<<>>}

Occurs(r, seq) == \E j \in 1 .. Len(seq) : seq[j] = r

NonIncreasing(seq) ==
    \A i, j \in 1 .. Len(seq) : i < j => seq[i].score >= seq[j].score

\* C1: when the filtered candidates carry more than one distinct source, the
\* result holds at most one candidate per source, and every returned
\* candidate is the highest-scoring filtered candidate of its source, the
\* first in input order among those of equal top score.
C1_BestPerSource ==
    (RankDone /\ Cardinality(NonEmptySources(formatted_results)) > 1) =>
        /\ \A i, j \in 1 .. Len(ret) :
               i # j => SourceOf(ret[i]) # SourceOf(ret[j])
        /\ \A i \in 1 .. Len(ret) :
               \E p \in 1 .. Len(formatted_results) :
                   /\ formatted_results[p] = ret[i]
                   /\ \A q \in 1 .. Len(formatted_results) :
                          SourceOf(formatted_results[q]) = SourceOf(ret[i]) =>
                              \/ formatted_results[q].score < ret[i].score
                              \/ /\ formatted_results[q].score = ret[i].score
                                 /\ q >= p

\* two sources, one of them with two candidates tied at its top score, and
\* the first of the tied pair is returned, the second dropped
C1_Witness ==
    /\ RankDone
    /\ Cardinality(NonEmptySources(formatted_results)) = 2
    /\ Len(formatted_results) = 3
    /\ Len(ret) = 2
    /\ \E p, q \in 1 .. 3 :
           /\ p < q
           /\ SourceOf(formatted_results[p]) = SourceOf(formatted_results[q])
           /\ formatted_results[p].score = formatted_results[q].score
           /\ Occurs(formatted_results[p], ret)
           /\ ~Occurs(formatted_results[q], ret)

\* C2: candidates with empty or missing source do not count as a source: with
\* exactly one non-empty source among the filtered candidates, deduplication
\* is skipped and every filtered candidate stays eligible.
C2_EmptySourceNotCounted ==
    (RankDone /\ Cardinality(NonEmptySources(formatted_results)) = 1) =>
        /\ Len(results_list) = Len(formatted_results)
        /\ \A i \in 1 .. Len(formatted_results) :
               Occurs(formatted_results[i], results_list)

\* C3: a threshold-passing candidate with empty or missing source is never
\* removed by the deduplication step: it reaches the sort step.
C3_EmptySourceKept ==
    RankDone =>
        \A i \in 1 .. Len(formatted_results) :
            SourceOf(formatted_results[i]) = <<>> =>
                Occurs(formatted_results[i], results_list)

\* C4: with exactly one or zero distinct (non-empty) sources among the
\* filtered candidates, the result is exactly the first topK of all filtered
\* candidates in score-descending order.
C4_SingleSourceKeepsAll ==
    (RankDone /\ top_k >= 0
        /\ Cardinality(NonEmptySources(formatted_results)) <= 1) =>
        /\ Len(ret) = Min(top_k, Len(formatted_results))
        /\ NonIncreasing(ret)
        /\ \A i \in 1 .. Len(ret) : Occurs(ret[i], formatted_results)
        /\ \A i \in 1 .. Len(formatted_results) :
               ~Occurs(formatted_results[i], ret) =>
                   \A j \in 1 .. Len(ret) :
                       ret[j].score >= formatted_results[i].score

\* C5: every candidate returned by query_similar has score >= min_score.
C5_ScoreAtLeastMinScore ==
    RankDone => \A i \in 1 .. Len(ret) : ret[i].score >= min_score

\* C6: for top_k >= 0 the result has at most top_k entries and is exactly the
\* first top_k entries of the sorted surviving sequence; top_k = 0 and an
\* empty candidate list both give an empty result.
C6_TruncatedToTopK ==
    (RankDone /\ top_k >= 0) =>
        /\ Len(ret) <= top_k
        /\ Len(ret) = Min(top_k, Len(results_list))
        /\ \A i \in 1 .. Len(ret) : ret[i] = results_list[i]
        /\ (top_k = 0 => ret = <<>>)
        /\ (docs = <<>> => ret = <<>>)

\* the truncation cuts: more survivors than top_k
C6_Witness ==
    /\ RankDone
    /\ top_k = 2
    /\ Len(results_list) = 3
    /\ Len(ret) = 2

\* C7: the returned sequence is ordered by score, non-increasing from first
\* to last.
C7_NonIncreasingScores == RankDone => NonIncreasing(ret)

\* three candidates that came in ascending score order are returned
C7_Witness ==
    /\ RankDone
    /\ Len(ret) = 3
    /\ \A i \in 1 .. 3 : formatted_results[i].text = i
    /\ formatted_results[1].score < formatted_results[2].score
    /\ formatted_results[2].score < formatted_results[3].score
    /\ ret[1].text = 3

\* C8: ranking is idempotent: the pipeline (filter, source dedup, sort,
\* truncate) applied with the same top_k >= 0 and min_score to the returned
\* sequence gives that sequence again.
C8_RankIdempotent ==
    (RankDone /\ top_k >= 0) => RankPipeline(ret, top_k, min_score) = ret

\* the first pass filtered, deduplicated and reordered, and left a tie
C8_Witness ==
    /\ RankDone
    /\ top_k >= 2
    /\ min_score > 0
    /\ Len(docs) = 3
    /\ Len(ret) = 2
    /\ ret[1].score = ret[2].score
    /\ ret[1].text > ret[2].text

\* what the claim C9 asks of the formatting: a missing distance gives score 0,
\* a missing metadata gives the empty dict
FormatTolerant(ds, ms, dist) ==
    [i \in 1 .. Len(ds) |->
        [text     |-> ds[i],
         metadata |-> IF i <= Len(ms) /\ ms[i] # NoneValue
                      THEN ms[i] ELSE EmptyDict,
         score    |-> IF i <= Len(dist) THEN One - dist[i] ELSE 0]]

TextsOf(seq) == [i \in 1 .. Len(seq) |-> seq[i].text]

\* C9: the ranking never raises on the candidates a search returns: a
\* candidate without score is ranked as if its score were 0, one without
\* metadata as if its metadata were empty.
C9_MalformedTolerated ==
    pc = "done" =>
        /\ outcome = "returned"
        /\ TextsOf(ret) =
               TextsOf(RankPipeline(FormatTolerant(docs, metadatas, distances),
                                    top_k, min_score))

\* the candidates the search returned, as records
Candidates == FormatResults(docs, metadatas, distances)

\* C18 as claimed: every returned element is one of the candidates the
\* search returned, with text, metadata and score unchanged.
C18_CandidatesUnchanged ==
    RankDone => \A j \in 1 .. Len(ret) : Occurs(ret[j], Candidates)

\* C18 amended: every returned element is one of the candidates with text
\* and score unchanged and no field added; its metadata is the candidate's
\* except for the entry source, which holds the candidate's source stripped
\* of surrounding whitespace, the empty string when it has none.
C18_CandidatesUnchangedButSource ==
    RankDone =>
        \A j \in 1 .. Len(ret) :
            \E i \in 1 .. Len(Candidates) :
                LET c == Candidates[i]
                IN  /\ DOMAIN ret[j] = {"text", "metadata", "score"}
                    /\ ret[j].text = c.text
                    /\ ret[j].score = c.score
                    /\ DOMAIN ret[j].metadata =
                           DOMAIN c.metadata \cup {"source"}
                    /\ \A k \in DOMAIN c.metadata \ {"source"} :
                           ret[j].metadata[k] = c.metadata[k]
                    /\ ret[j].metadata["source"] =
                           Strip(Get(c.metadata, "source", <<>>))

\* a candidate with a chunk_id and one whose source lost its trailing blank
\* are both returned
C18_Witness ==
    /\ RankDone
    /\ Len(ret) = 2
    /\ \E j \in 1 .. 2 : "chunk_id" \in DOMAIN ret[j].metadata
    /\ \E j \in 1 .. 2 :
           /\ ret[j].metadata["source"] = <<"A">>
           /\ ~Occurs(ret[j], Candidates)

(***************************************************************************)
(* Properties of chunk_text                                                *)
(***************************************************************************)
ChunkDone == pc \in {"done", "processed"} /\ outcome = "returned"

\* character position p (0-based) lies inside a returned chunk
Covered(p) ==
    \E j \in 1 .. Len(chunks) :
        starts[j] <= p /\ p < starts[j] + Len(chunks[j])

\* C10 as claimed: every character position of text lies inside at least one
\* returned chunk.
C10_EveryPositionCovered ==
    ChunkDone => \A p \in 0 .. Len(text) - 1 : Covered(p)

\* C10 amended: every position holding a non-whitespace character lies inside
\* at least one returned chunk.
C10_NonSpacePositionsCovered ==
    ChunkDone =>
        \A p \in 0 .. Len(text) - 1 : ~IsSpace(text[p + 1]) => Covered(p)

\* an all-whitespace window between two kept windows was dropped
C10_Witness ==
    /\ ChunkDone
    /\ Len(chunks) = 2
    /\ starts[2] > starts[1] + chunk_size
    /\ overlap > 0
    /\ \E p \in 0 .. Len(text) - 1 : ~Covered(p)

\* the parameters are valid: windowSize > 0 and 0 <= overlap < windowSize
ValidWindow == chunk_size > 0 /\ overlap >= 0 /\ overlap < chunk_size

\* the number k of the first window text[k*step : k*step + W] whose end
\* reaches the end of the text
LastWindow ==
    CHOOSE k \in 0 .. Len(text) :
        /\ k * (chunk_size - overlap) + chunk_size >= Len(text)
        /\ \A j \in 0 .. k - 1 :
               j * (chunk_size - overlap) + chunk_size < Len(text)

\* text[k*step : min(k*step + W, L)]
Window(k) ==
    SubSeq(text, k * (chunk_size - overlap) + 1,
           Min(k * (chunk_size - overlap) + chunk_size, Len(text)))

AllSpace(s) == \A i \in 1 .. Len(s) : IsSpace(s[i])

EndsAtEnd == {j \in 1 .. Len(chunks) : starts[j] + Len(chunks[j]) = Len(text)}

\* C11 as claimed: the returned chunks are the windows
\* text[k*step : min(k*step + W, L)] for k = 0, 1, ... up to the first one
\* whose end reaches L, and exactly one returned window ends at L.
C11_ChunksAreAllWindows ==
    (ChunkDone /\ Len(text) >= 1) =>
        /\ Len(chunks) = LastWindow + 1
        /\ \A k \in 0 .. LastWindow :
               k + 1 <= Len(chunks) => chunks[k + 1] = Window(k)
        /\ Cardinality(EndsAtEnd) = 1

\* C11 amended: the returned chunks are, in order, those of these windows
\* that are not all whitespace; at most one returned window ends at L, and
\* exactly one when the last window is not all whitespace.
C11_ChunksAreKeptWindows ==
    (ChunkDone /\ Len(text) >= 1) =>
        LET kept == {k \in 0 .. LastWindow : ~AllSpace(Window(k))}
        IN  /\ Len(chunks) = Cardinality(kept)
            /\ {starts[j] : j \in 1 .. Len(starts)} =
                   {k * (chunk_size - overlap) : k \in kept}
            /\ \A i, j \in 1 .. Len(starts) : i < j => starts[i] < starts[j]
            /\ \A j \in 1 .. Len(chunks) :
                   chunks[j] = SubSeq(text, starts[j] + 1,
                                      Min(starts[j] + chunk_size, Len(text)))
            /\ Cardinality(EndsAtEnd) <= 1
            /\ (LastWindow \in kept => Cardinality(EndsAtEnd) = 1)

\* L = 1200, W = 500, V = 50: text[0:500], text[450:950], text[900:1200]
C11_Witness ==
    /\ ChunkDone
    /\ Len(text) = 1200
    /\ chunk_size = 500
    /\ overlap = 50
    /\ starts = <<0, 450, 900>>
    /\ Len(chunks) = 3
    /\ Len(chunks[1]) = 500
    /\ Len(chunks[2]) = 500
    /\ Len(chunks[3]) = 300

\* C12 as claimed: a non-empty text no longer than the window gives exactly
\* one chunk, the whole text.
C12_ShortTextOneChunk ==
    (ChunkDone /\ ValidWindow /\ text # <<>> /\ Len(text) <= chunk_size) =>
        chunks = <<text>>

\* C12 amended: a text that is not all whitespace and no longer than the
\* window gives exactly one chunk, the whole text.
C12_ShortNonBlankTextOneChunk ==
    (ChunkDone /\ ValidWindow /\ ~AllSpace(text)
        /\ Len(text) <= chunk_size) =>
        chunks = <<text>>

\* a text exactly one window long, with overlap, whitespace at both ends
C12_Witness ==
    /\ ChunkDone
    /\ Len(text) = chunk_size
    /\ Len(text) >= 3
    /\ overlap > 0
    /\ IsSpace(text[1])
    /\ IsSpace(text[Len(text)])
    /\ chunks = <<text>>

\* C13: with windowSize <= 0, overlap < 0 or overlap >= windowSize chunk_text
\* raises ValueError and produces no chunks, for every text, the empty text
\* included.
C13_InvalidParametersRaise ==
    (pc = "done"
        /\ (chunk_size <= 0 \/ overlap < 0 \/ overlap >= chunk_size)) =>
        /\ outcome = "ValueError"
        /\ chunks = <<>>

\* the empty text with a negative overlap
C13_Witness ==
    /\ pc = "done"
    /\ text = <<>>
    /\ chunk_size >= 1
    /\ overlap < 0
    /\ outcome = "ValueError"

\* C14: for valid parameters an empty or all-whitespace text gives an empty
\* chunk sequence from chunk_text and an empty list from process_file, and
\* no error.
C14_BlankTextNoChunks ==
    (pc \in {"done", "processed"} /\ ValidWindow /\ AllSpace(text)) =>
        /\ outcome = "returned"
        /\ chunks = <<>>
        /\ result = <<>>

\* process_file on a document of whitespace longer than one window
C14_Witness ==
    /\ pc = "processed"
    /\ Len(text) > CHUNK_SIZE
    /\ AllSpace(text)
    /\ Len(visited) >= 2
    /\ outcome = "returned"
    /\ result = <<>>

\* C15: process_file numbers the kept chunks 0, 1, ..., n-1 in left-to-right
\* document order, without a gap where a window was dropped, and gives every
\* chunk the same source.
C15_DenseChunkIds ==
    (pc = "processed" /\ outcome = "returned") =>
        /\ Len(result) = Len(starts)
        /\ \A i, j \in 1 .. Len(starts) : i < j => starts[i] < starts[j]
        /\ \A j \in 1 .. Len(result) :
               /\ result[j].metadata.chunk_id = j - 1
               /\ result[j].metadata.source = file.name
               /\ result[j].text =
                      SubSeq(text, starts[j] + 1,
                             Min(starts[j] + CHUNK_SIZE, Len(text)))

\* the second of four windows was dropped: the third window is chunk 1
C15_Witness ==
    /\ pc = "processed"
    /\ outcome = "returned"
    /\ Len(visited) = 4
    /\ starts = <<0, 900, 1350>>
    /\ Len(result) = 3
    /\ result[2].metadata.chunk_id = 1

\* C19: every returned chunk is non-empty after trimming whitespace and no
\* longer than the window.
C19_ChunksNonBlankAndBounded ==
    ChunkDone =>
        \A j \in 1 .. Len(chunks) :
            /\ \E i \in 1 .. Len(chunks[j]) : ~IsSpace(chunks[j][i])
            /\ Len(chunks[j]) <= chunk_size

\* a window was dropped, a kept chunk begins with whitespace and the last
\* chunk is shorter than the window
C19_Witness ==
    /\ ChunkDone
    /\ Len(visited) > Len(chunks)
    /\ Len(chunks) >= 2
    /\ IsSpace(chunks[2][1])
    /\ Len(chunks[Len(chunks)]) < chunk_size

\* s[-n:] and s[:n] for n > 0
LastN(s, n) == SubSeq(s, Max(Len(s) - n, 0) + 1, Len(s))

FirstN(s, n) == SubSeq(s, 1, Min(n, Len(s)))

\* chunks j and j+1 were cut from two windows the loop took one after the
\* other
Adjacent(j) ==
    \E m \in 1 .. Len(visited) - 1 :
        visited[m] = starts[j] /\ visited[m + 1] = starts[j + 1]

\* C20 as claimed: with overlap V > 0 the last V characters of a returned
\* chunk are the first V characters of the next returned chunk.
C20_ConsecutiveChunksOverlap ==
    (ChunkDone /\ overlap > 0) =>
        \A j \in 1 .. Len(chunks) - 1 :
            LastN(chunks[j], overlap) = FirstN(chunks[j + 1], overlap)

\* C20 amended: the same for two consecutive chunks with no dropped window
\* between them.
C20_AdjacentChunksOverlap ==
    (ChunkDone /\ overlap > 0) =>
        \A j \in 1 .. Len(chunks) - 1 :
            Adjacent(j) =>
                LastN(chunks[j], overlap) = FirstN(chunks[j + 1], overlap)

\* three windows of three characters overlapping by two, over a text of
\* changing characters
C20_Witness ==
    /\ ChunkDone
    /\ chunk_size = 3
    /\ overlap = 2
    /\ Len(chunks) = 3
    /\ Adjacent(1)
    /\ Adjacent(2)
    /\ text[2] # text[3]
    /\ text[3] # text[4]

(***************************************************************************)
(* Properties of the application's handlers                                *)
(***************************************************************************)
UploadOK(r) == r.kind = "upload" /\ r.status = 200

\* C16 as claimed: when a successful upload is followed directly by a
\* successful upload of the same filename and content, the second upload
\* writes the chunk ids of the first and the collection's records, hence
\* its count, are what they were after the first.
C16_ReuploadOverwrites ==
    [][(/\ UploadOK(served)
        /\ UploadOK(served')
        /\ served'.filename = served.filename
        /\ served'.content = served.content)
       => (/\ served'.ids = served.ids
           /\ Cardinality(store') = Cardinality(store))]_vars

\* C17 as claimed: in the state a reset that answered 200 leaves, the count
\* of the response is 0 and the collection holds no record, so that a stats
\* request served next counts 0.
C17_ResetLeavesEmpty ==
    (served.kind = "reset" /\ served.status = 200)
        => (served.count = 0 /\ store = {})

QueryOK == pc = "answered" /\ served.kind = "query" /\ served.status = 200

\* C21: a 200 response of POST /api/query with top_k >= 0 holds only results
\* of score >= min_score, at most top_k of them, in non-increasing score
\* order; count is the number of results and returned_after_filter (the
\* number of results) is at most returned_before_filter (the length of the
\* list query_similar returned).
C21_QueryResponseFiltered ==
    (QueryOK /\ top_k >= 0) =>
        /\ \A i \in 1 .. Len(served.results) :
               served.results[i].score >= min_score
        /\ Len(served.results) <= top_k
        /\ NonIncreasing(served.results)
        /\ served.count = Len(served.results)
        /\ served.count <= served.before

\* query_similar, asked for min_score 0, returned two candidates, one of
\* negative score; the response holds the other one only
C21_Witness ==
    /\ QueryOK
    /\ top_k >= 2
    /\ min_score = 0
    /\ served.before = 2
    /\ Len(served.results) = 1
    /\ \E i \in 1 .. Len(docs) : Candidates[i].score < 0

\* C22: an upload for which process_file returned no chunk is answered 400
\* without an embedding call and without an upsert, and leaves the
\* collection and its records as they were.
C22_NoChunksNoWrite ==
    [][(served'.kind = "upload" /\ served'.extracted = 0)
       => (/\ served'.status = 400
           /\ served'.embed = "not called"
           /\ served'.upsert = "not called"
           /\ store' = store
           /\ coll_gen' = coll_gen)]_vars

\* a blank document was uploaded to a collection that holds chunks
C22_Witness ==
    /\ served.kind = "upload"
    /\ served.extracted = 0
    /\ served.content = <<" ">>
    /\ store # {}

(***************************************************************************)
(* Properties of embed_texts                                               *)
(***************************************************************************)
EmbedDone == pc = "embedded"

OkCalls == SelectSeq(api_calls, LAMBDA c : c.reply = "ok")

\* the calls of a sequence are for consecutive batches of at most BATCH_SIZE
\* texts that together hold every text once
ConsecutiveBatches(calls) ==
    /\ calls # <<>>
    /\ calls[1].start = 0
    /\ calls[Len(calls)].end = Len(texts)
    /\ \A i \in 1 .. Len(calls) :
           /\ calls[i].start < calls[i].end
           /\ calls[i].end - calls[i].start <= BATCH_SIZE
           /\ i > 1 => calls[i].start = calls[i - 1].end

\* C23: when the API was called and every call succeeded, embed_texts
\* returns one vector per text, the vector of text i at position i, and
\* the calls were for consecutive batches of at most 100 texts that hold
\* every text once.  (Without texts or without API key embed_texts raises
\* ValueError before any call.)
C23_OneVectorPerText ==
    (EmbedDone /\ api_calls # <<>> /\ OkCalls = api_calls) =>
        /\ outcome = "returned"
        /\ vectors = [i \in 1 .. Len(texts) |-> Embedding(texts[i])]
        /\ ConsecutiveBatches(api_calls)

\* 105 texts were embedded in two calls
C23_Witness ==
    /\ EmbedDone
    /\ outcome = "returned"
    /\ Len(texts) = 105
    /\ Len(api_calls) = 2
    /\ Len(vectors) = 105

CallsFor(start) == SelectSeq(api_calls, LAMBDA c : c.start = start)

\* C24: no batch is sent more than MAX_RETRIES times; a call for the batch
\* of the call before it follows a rate-limited failure only; a blocked
\* prompt or another failure is the last call and embed_texts has raised.
C24_RetryOnlyRateLimited ==
    /\ \A i \in 1 .. Len(api_calls) :
           Len(CallsFor(api_calls[i].start)) <= MAX_RETRIES
    /\ \A i \in 1 .. Len(api_calls) - 1 :
           api_calls[i + 1].start = api_calls[i].start
               => api_calls[i].reply = "rate_limited"
    /\ \A i \in 1 .. Len(api_calls) :
           api_calls[i].reply \in {"blocked", "other"}
               => /\ i = Len(api_calls)
                  /\ EmbedDone
                  /\ outcome = "RuntimeError"

\* the second batch was sent three times, rate-limited each time, and
\* embed_texts raised
C24_Witness ==
    /\ EmbedDone
    /\ outcome = "RuntimeError"
    /\ Len(api_calls) = 4
    /\ api_calls[1].reply = "ok"
    /\ \A i \in 2 .. 4 :
           api_calls[i].start = BATCH_SIZE /\ api_calls[i].reply = "rate_limited"

\* C29, the safety part: embed_texts returns only when every batch got its
\* embeddings from a successful call, and then returns the vectors of all
\* texts; when it raises, the caller gets no embedding.
ReturnsAllOrRaises ==
    /\ (EmbedDone /\ outcome = "returned")
           => /\ ConsecutiveBatches(OkCalls)
              /\ vectors = [i \in 1 .. Len(texts) |-> Embedding(texts[i])]
    /\ (EmbedDone /\ outcome # "returned")
           => /\ outcome \in {"ValueError", "RuntimeError"}
              /\ vectors = <<>>

\* C29: every call of embed_texts terminates, whatever the API replies, and
\* it never returns after skipping a batch.
C29_TerminatesAllOrNothing == <>EmbedDone /\ []ReturnsAllOrRaises

\* embed_texts raised on the second batch after the first was embedded
C29_Witness ==
    /\ EmbedDone
    /\ outcome = "RuntimeError"
    /\ Len(all_embeddings) = BATCH_SIZE
    /\ vectors = <<>>

\* C27: an upload whose embedding raised made no call of collection.upsert
\* and left the records as they were; every upload either leaves the
\* records as they were or adds the ids of all the chunks process_file
\* returned for it.
C27_UploadAllOrNothing ==
    [][served'.kind = "upload"
       => (/\ served'.embed = "raised"
               => (served'.upsert = "not called" /\ store' = store)
           /\ \/ store' = store
              \/ /\ served'.extracted > 0
                 /\ Cardinality(served'.ids) = served'.extracted
                 /\ store' = store \cup served'.ids)]_vars

\* the embedding of a two-chunk upload raised while the collection held the
\* chunks of an earlier upload
C27_Witness ==
    /\ served.kind = "upload"
    /\ served.extracted = 2
    /\ served.embed = "raised"
    /\ served.status = 500
    /\ store # {}

\* C26 as claimed: between requests, a cached collection handle that is not
\* None refers to the collection that exists in the backend.
C26_CachedHandleIsLive == cached_collection # 0 => cached_collection = coll_gen

\* C30 as claimed: an upload is answered 400 only when the request has no
\* file or an empty filename, when process_file raised, or when it returned
\* no chunk; once process_file has returned chunks, a failure of the client
\* creation, the collection, the embedding or the upsert is answered 500.
C30_UploadClientErrorsOnly ==
    (served.kind = "upload" /\ served.status = 400) => served.extracted <= 0

(***************************************************************************)
(* Properties of the cache under concurrent requests                       *)
(***************************************************************************)
\* C25 as claimed: under every interleaving of the request threads,
\* create_client succeeds at most once, the collection is fetched at most
\* once, and all calls of get_client_and_collection that returned got the
\* same client and the same collection.
C25_InitializedOnce ==
    /\ create_calls <= 1
    /\ fetch_calls <= 1
    /\ \A t, u \in Threads :
           (observed[t] # NothingObserved /\ observed[u] # NothingObserved)
               => observed[t] = observed[u]

====
